---- MODULE Spec2Model ----
(***************************************************************************)
(* mongoimport: the buffered bulk inserter (common/db) and the concurrent  *)
(* ingestion pipeline of mongoimport.go (importDocuments, ingestDocuments, *)
(* runInsertionWorker).                                                    *)
(*                                                                         *)
(* Three specifications share this module:                                 *)
(*   SpecBB   one BufferedBulkInserter driven by arbitrary Insert / Flush  *)
(*            calls (the pipeline variables stay at their initial value);  *)
(*   Spec     the pipeline: producer, bounded channel, insertion workers,  *)
(*            tomb, coordinator (the lone inserter stays untouched);       *)
(*   LiveSpec the pipeline over its shortest and longest inputs, with the  *)
(*            fairness the Go scheduler gives the worker goroutines.       *)
(***************************************************************************)
EXTENDS Integers, Sequences, FiniteSets, TLC

\* ------------------------------------------------------------------------
\* Program constants
\* ------------------------------------------------------------------------
MaxBulkSize == 16790000

BulkDocLimit == 1000

workerBufferSize == 16

\* ------------------------------------------------------------------------
\* Bounds of the model
\* ------------------------------------------------------------------------
\* SpecBB: number of Insert calls, of explicit Flush calls, largest small docLimit
MaxFeed == 4

MaxDrains == 2

MaxDocLimit == 3

\* Spec: requested workers, input records, requested batch size, rejected records
\* of the small runs; records beyond the channel capacity of the long runs
MaxWorkers == 2

MaxRecords == 2

MaxBatch == 2

MaxBad == 1

ExtraRecords == 3

\* LiveSpec: input records of the small runs
MaxLiveRecords == 1

\* channelQuorumError(processingErrChan, 2)
Quorum == 2

Nil == "nil"

\* ------------------------------------------------------------------------
\* Helpers on sequences
\* ------------------------------------------------------------------------
Min(a, b) == IF a <= b THEN a ELSE b

\* the serialized bytes of docs[lo..hi] (halving keeps the recursion shallow)
RECURSIVE SumRange(_, _, _)
SumRange(docs, lo, hi) ==
    IF lo > hi THEN 0
    ELSE IF lo = hi THEN docs[lo].size
    ELSE LET mid == (lo + hi) \div 2
         IN  SumRange(docs, lo, mid) + SumRange(docs, mid + 1, hi)

SumSize(docs) == SumRange(docs, 1, Len(docs))

Range(s) == {s[i] : i \in 1..Len(s)}

\* ------------------------------------------------------------------------
\* BufferedBulkInserter (common/db)
\* A document is [id, size, enc]: size is len(bson.Marshal(doc)), enc tells
\* whether bson.Marshal succeeds.  bulk is the docs slice of the BulkInserter.
\* ------------------------------------------------------------------------
NewBufferedBulkInserter(docLimit) ==
    [docLimit |-> docLimit, byteCount |-> 0, docCount |-> 0, bulk |-> <<>>]

\* mutant: Reset leaves the documents of the flushed batch in the bulk
BulkResetKeeps(bb) == bb

\* BulkInserter.Reset: a fresh, empty bulk; the inserter's counters are untouched
BulkReset(bb) == [bb EXCEPT !.bulk = <<>>]

\* mutant: the document-count tests off by one (> for >=)
IsFullOffByOne(bb, doc) ==
    \/ bb.docCount > bb.docLimit
    \/ bb.byteCount + doc.size > MaxBulkSize
    \/ bb.docCount > BulkDocLimit

\* the "flush if we are full" test of Insert
IsFull(bb, doc) ==
    \/ bb.docCount >= bb.docLimit
    \/ bb.byteCount + doc.size > MaxBulkSize
    \/ bb.docCount >= BulkDocLimit

\* Flush: res is what bulk.Run() returns for the batch when it is run.
\* Result: the inserter afterwards, the error returned, the batches handed to Run.
Flush(bb, res) ==
    IF bb.docCount = 0
    THEN [bb |-> bb, err |-> Nil, ran |-> <<>>]
    ELSE [bb |-> BulkReset(bb), err |-> res, ran |-> <<bb.bulk>>]

\* mutant: the document is not buffered when the flush it triggered failed
InsertDropsOnError(bb, doc, res) ==
    IF ~doc.enc
    THEN [bb |-> bb, err |-> "bson", ran |-> <<>>]
    ELSE LET f == IF IsFull(bb, doc) THEN Flush(bb, res)
                  ELSE [bb |-> bb, err |-> Nil, ran |-> <<>>]
         IN  [bb  |-> IF f.err # Nil THEN f.bb
                      ELSE [f.bb EXCEPT !.docCount = @ + 1,
                                        !.byteCount = @ + doc.size,
                                        !.bulk = Append(@, doc)],
              err |-> f.err,
              ran |-> f.ran]

\* mutant: the document is put in front of the buffered ones
InsertPrepends(bb, doc, res) ==
    IF ~doc.enc
    THEN [bb |-> bb, err |-> "bson", ran |-> <<>>]
    ELSE LET f == IF IsFull(bb, doc) THEN Flush(bb, res)
                  ELSE [bb |-> bb, err |-> Nil, ran |-> <<>>]
         IN  [bb  |-> [f.bb EXCEPT !.docCount = @ + 1,
                                   !.byteCount = @ + doc.size,
                                   !.bulk = <<doc>> \o @],
              err |-> f.err,
              ran |-> f.ran]

\* Insert: marshal, flush if full, then buffer the document unconditionally
Insert(bb, doc, res) ==
    IF ~doc.enc
    THEN [bb |-> bb, err |-> "bson", ran |-> <<>>]
    ELSE LET f == IF IsFull(bb, doc) THEN Flush(bb, res)
                  ELSE [bb |-> bb, err |-> Nil, ran |-> <<>>]
         IN  [bb  |-> [f.bb EXCEPT !.docCount = @ + 1,
                                   !.byteCount = @ + doc.size,
                                   !.bulk = Append(@, doc)],
              err |-> f.err,
              ran |-> f.ran]

\* does Insert(doc) hand a batch to the store?
InsertRuns(bb, doc) == doc.enc /\ IsFull(bb, doc) /\ bb.docCount # 0

\* constructUpsertDocument: no selector for an empty key set, else the key
\* fields with the document's values for them (a document is told by its id)
NoSelector == [key |-> "", value |-> 0]

constructUpsertDocument(keys, doc) ==
    IF keys = "" THEN NoSelector ELSE [key |-> keys, value |-> doc.id]

\* mutant: the upserter ignores the selector and always inserts
UpserterInsertPlain(bb, keys, doc, res) ==
    [bb |-> bb, err |-> res, ran |-> <<>>,
     wrote |-> <<[op |-> "insert", selector |-> NoSelector, doc |-> doc]>>]

\* upserter.Insert: one Insert (no selector) or Upsert (with the selector) on
\* the collection, whose error is returned; nothing is buffered
UpserterInsert(bb, keys, doc, res) ==
    LET selector == constructUpsertDocument(keys, doc)
    IN  [bb |-> bb, err |-> res, ran |-> <<>>,
         wrote |-> <<[op |-> IF selector = NoSelector THEN "insert" ELSE "upsert",
                      selector |-> selector, doc |-> doc]>>]

\* upserter.Flush: nothing to do
UpserterFlush(bb) == [bb |-> bb, err |-> Nil, ran |-> <<>>]

VARIABLES
    \* --- the lone inserter of SpecBB
    bbx,        \* the BufferedBulkInserter
    ran,        \* the batches handed to bulk.Run(), in order
    fed,        \* the documents passed to Insert, in order
    drains,     \* number of explicit Flush calls
    lastCall    \* [op, err, runs, prev, res]: the last call, its return value,
                \* the writes it made, the call before it, and what bulk.Run
                \* returned to it (nil if it was not called)

VARIABLES
    \* --- the pipeline of Spec
    cfg,             \* the validated options and the input of the run (never changes)
    replicas,        \* enough members replicate for the write concern to be met
    readDocs,        \* the buffered channel readDocs (its queued documents)
    closed,          \* readDocs has been closed
    producer,        \* the StreamDocument goroutine: [pc, next, err]
    tomb,            \* imp.Tomb: [dying, reason]
    pc,              \* per worker goroutine: its position
    bb,              \* per worker: its BufferedBulkInserter
    hold,            \* per worker: the document whose Insert waits for bulk.Run
    werr,            \* per worker: the value runInsertionWorker returned
    exit,            \* per worker: how it left runInsertionWorker
    insertionCount,  \* imp.insertionCount
    retErr,          \* ingestDocuments' retErr (the first-error slot)
    pool,            \* the ingestDocuments goroutine: "waiting", "returned", "done"
    received,        \* what importDocuments read from processingErrChan
    result,          \* what importDocuments returned, or NoResult
    writes,          \* the batches submitted to the store, in order of submission
    lateDeq          \* ids of the documents dequeued while the tomb was dying

bbVars == <<bbx, ran, fed, drains, lastCall>>

pipeVars == <<cfg, replicas, readDocs, closed, producer, tomb, pc, bb, hold, werr, exit,
              insertionCount, retErr, pool, received, result, writes, lateDeq>>

vars == <<bbx, ran, fed, drains, lastCall,
          cfg, replicas, readDocs, closed, producer, tomb, pc, bb, hold, werr,
          exit, insertionCount, retErr, pool, received, result, writes, lateDeq>>

\* the lone inserter before any call
BBStart ==
    /\ ran = <<>>
    /\ fed = <<>>
    /\ drains = 0
    /\ lastCall = [op |-> "New", err |-> Nil, runs |-> 0, prev |-> "New",
                   res |-> Nil]

\* ------------------------------------------------------------------------
\* The pipeline (mongoimport.go)
\* ------------------------------------------------------------------------
Workers == 1..MaxWorkers

NoDoc == [id |-> 0, size |-> 0, enc |-> TRUE]

NoResult == [count |-> -1, err |-> Nil]

\* ValidateSettings: imp.upsertFields are the --upsertFields (one field
\* here), "_id" under --upsert alone, and empty without upsert
UpsertKeys(upsertFlag, upsertFields) ==
    IF upsertFields # "" THEN upsertFields
    ELSE IF upsertFlag THEN "_id" ELSE ""

\* ValidateSettings: non-empty --upsertFields turn Upsert on
Upsert(upsertFlag, upsertFields) == upsertFlag \/ upsertFields # ""

\* ValidateSettings: Upsert turns MaintainInsertionOrder on
MaintainInsertionOrder(mioFlag, upsert) == mioFlag \/ upsert

\* mutant: MaintainInsertionOrder does not limit the insertion workers
NumInsertionWorkersAsRequested(requested, maintainInsertionOrder) ==
    IF requested <= 0 THEN 1 ELSE requested

\* ValidateSettings: the number of insertion workers actually used
NumInsertionWorkers(requested, maintainInsertionOrder) ==
    LET n == IF requested <= 0 THEN 1 ELSE requested
    IN  IF maintainInsertionOrder THEN 1 ELSE n

\* the documents of the input: all encodable (they were decoded into bson.D)
Doc(i) == [id |-> i, size |-> 1, enc |-> TRUE]

Active == 1..cfg.workers

\* runInsertionWorker: the bulk is unordered unless MaintainInsertionOrder
Unordered == ~cfg.maintainInsertionOrder

\* tomb.Kill: the first reason is kept, the dying channel is closed
Kill(t, reason) == IF t.dying THEN t ELSE [dying |-> TRUE, reason |-> reason]

RECURSIVE FirstBad(_, _)
FirstBad(docs, i) ==
    IF i > Len(docs) THEN i
    ELSE IF docs[i].id \in cfg.bad THEN i ELSE FirstBad(docs, i + 1)

\* bulk.Run for a batch: the store rejects the documents of cfg.bad (duplicate
\* keys); an ordered batch stops at the first rejected document, an unordered
\* one writes all the others; the error is non-nil iff a document was rejected
\* or the write concern of the session was not met within its wtimeout
StoreRun(docs) ==
    LET k == FirstBad(docs, 1)
        ids == {docs[i].id : i \in 1..Len(docs)}
    IN  [err     |-> IF k <= Len(docs) THEN "dup"
                     ELSE IF ~replicas THEN "wtimeout" ELSE Nil,
         written |-> IF Unordered THEN ids \ cfg.bad
                     ELSE {docs[i].id : i \in 1..(k - 1)}]

IsConnectionError(err) == err \in {"connect", "unreachable"}

\* filterIngestError: a write error is fatal under stopOnError only, a
\* connection error always
filterIngestError(stopOnError, err) ==
    IF err = Nil THEN Nil
    ELSE IF stopOnError \/ IsConnectionError(err) THEN err
    ELSE Nil

RECURSIVE FirstNonNil(_)
FirstNonNil(errs) ==
    IF errs = <<>> THEN Nil
    ELSE IF errs[1] # Nil THEN errs[1] ELSE FirstNonNil(Tail(errs))

\* channelQuorumError: reads quorum values from the channel and returns the
\* first non-nil one
channelQuorumError(got) == FirstNonNil([i \in 1..Len(got) |-> got[i].err])

\* mutant: a write whose write concern cannot be met is given up
BlockedNever == FALSE

\* the write concern of the session has no wtimeout and cannot be met yet:
\* the socket has no timeout either, bulk.Run does not return
Blocked == ~replicas /\ ~cfg.wtimeout

PipeStart(c) ==
    /\ cfg = c
    /\ replicas = c.replicasUp
    /\ readDocs = <<>>
    /\ closed = FALSE
    /\ producer = [pc |-> "streaming", next |-> 1, err |-> Nil]
    /\ tomb = [dying |-> FALSE, reason |-> Nil]
    /\ pc = [w \in Workers |-> IF w <= c.workers THEN "connecting" ELSE "absent"]
    /\ bb = [w \in Workers |-> NewBufferedBulkInserter(c.docLimit)]
    /\ hold = [w \in Workers |-> NoDoc]
    /\ werr = [w \in Workers |-> Nil]
    /\ exit = [w \in Workers |-> "running"]
    /\ insertionCount = 0
    /\ retErr = Nil
    /\ pool = "waiting"
    /\ received = <<>>
    /\ result = NoResult
    /\ writes = <<>>
    /\ lateDeq = {}

\* the options as given (requested, mioFlag, upsertFlag, upsertFields), as
\* ValidateSettings leaves them (upsert, upsertKeys, maintainInsertionOrder,
\* workers),
\* and the input of the run
MakeConfig(req, stop, mio, ups, fields, dl, n, bad, dec, sess, up, wt) ==
    LET u == Upsert(ups, fields)
        o == MaintainInsertionOrder(mio, u)
    IN  [requested |-> req, mioFlag |-> mio, upsertFlag |-> ups,
         upsertFields |-> fields, upsert |-> u,
         upsertKeys |-> UpsertKeys(ups, fields), maintainInsertionOrder |-> o,
         workers |-> NumInsertionWorkers(req, o),
         stopOnError |-> stop, docLimit |-> dl,
         n |-> n, bad |-> bad, decodeErrAt |-> dec, sessErr |-> sess,
         replicasUp |-> up, wtimeout |-> wt]

\* --upsertFields: none, or one field
UpsertFields == {"", "a"}

NoSessErr == [w \in Workers |-> Nil]

\* session outcomes: every worker connects, or one worker (the first, the
\* workers being interchangeable) fails in GetSession or in configureSession
SessErrs ==
    {NoSessErr} \cup {[NoSessErr EXCEPT ![1] = e] : e \in {"connect", "configure"}}

\* the small runs that are kept: the failures fit the input; a session fails
\* over the shortest inputs only; stop-on-error is set only where something
\* can fail (without a failure it changes nothing); the write concern is not
\* met only over the shortest inputs, the store rejecting nothing
ValidConfig(c) ==
    /\ c.bad \subseteq 1..c.n
    /\ Cardinality(c.bad) <= MaxBad
    /\ c.decodeErrAt \in {0, c.n}
    /\ \A w \in Workers : c.sessErr[w] # Nil => w <= c.workers
    /\ c.sessErr # NoSessErr => c.n <= MaxLiveRecords
    /\ c.stopOnError => (c.bad # {} \/ c.wtimeout \/ c.sessErr # NoSessErr)
    /\ c.wtimeout => ~c.replicasUp
    /\ ~c.replicasUp => (c.bad = {} /\ c.decodeErrAt = 0 /\ c.n <= MaxLiveRecords)

\* long runs: one worker and more records than the channel holds
LongConfigs ==
    {MakeConfig(1, stop, mio, FALSE, "", dl, workerBufferSize + ExtraRecords, bad,
                0, NoSessErr, TRUE, FALSE) :
        stop \in BOOLEAN, mio \in BOOLEAN, dl \in 1..MaxBatch, bad \in SUBSET {1}}

\* the pipeline starts a small run: every combination of the options over a
\* short input, which is well-formed or has a malformed last record
ShortStart(Keep(_)) ==
    \E req \in 1..MaxWorkers, stop \in BOOLEAN, mio \in BOOLEAN,
       ups \in BOOLEAN, fields \in UpsertFields, dl \in 1..MaxBatch,
       n \in 0..MaxRecords, bad \in SUBSET (1..MaxRecords),
       dec \in 0..MaxRecords, sess \in SessErrs,
       up \in BOOLEAN, wt \in BOOLEAN :
        LET c == MakeConfig(req, stop, mio, ups, fields, dl, n, bad, dec, sess,
                            up, wt)
        IN  ValidConfig(c) /\ Keep(c) /\ PipeStart(c)

\* the pipeline starts a long run
LongStart(Keep(_)) == \E c \in LongConfigs : Keep(c) /\ PipeStart(c)

AnyConfig(c) == TRUE

\* the configuration of the pipeline while only the lone inserter is exercised
IdleConfig ==
    MakeConfig(1, FALSE, FALSE, FALSE, "", 1, 0, {}, 0, NoSessErr, TRUE, FALSE)

Init ==
    /\ ShortStart(AnyConfig) \/ LongStart(AnyConfig)
    /\ bbx = NewBufferedBulkInserter(1)
    /\ BBStart

\* --- the producer goroutine: inputReader.StreamDocument(ordered, readDocs).
\* The reader is handed the channel and nothing else: it streams the decoded
\* documents on it, closes it when the stream ends and returns a non-nil error
\* if it met one.  It holds no reference to the tomb.
\* mutant: the send does not wait for room in the channel
ProducerSendUnbounded ==
    /\ producer.pc = "streaming"
    /\ producer.next <= cfg.n
    /\ producer.next # cfg.decodeErrAt
    /\ readDocs' = Append(readDocs, Doc(producer.next))
    /\ producer' = [producer EXCEPT !.next = @ + 1]
    /\ UNCHANGED <<cfg, replicas, closed, tomb, pc, bb, hold, werr, exit,
                   insertionCount, retErr, pool, received, result, writes, lateDeq>>
    /\ UNCHANGED bbVars

\* decode the next record and send it; blocks while the channel is full
ProducerSend ==
    /\ producer.pc = "streaming"
    /\ producer.next <= cfg.n
    /\ producer.next # cfg.decodeErrAt
    /\ Len(readDocs) < workerBufferSize
    /\ readDocs' = Append(readDocs, Doc(producer.next))
    /\ producer' = [producer EXCEPT !.next = @ + 1]
    /\ UNCHANGED <<cfg, replicas, closed, tomb, pc, bb, hold, werr, exit, insertionCount,
                   retErr, pool, received, result, writes, lateDeq>>
    /\ UNCHANGED bbVars

\* the next record is malformed: the stream ends with the decode error
ProducerDecodeError ==
    /\ producer.pc = "streaming"
    /\ producer.next <= cfg.n
    /\ producer.next = cfg.decodeErrAt
    /\ closed' = TRUE
    /\ producer' = [producer EXCEPT !.pc = "returned", !.err = "decode"]
    /\ UNCHANGED <<cfg, replicas, readDocs, tomb, pc, bb, hold, werr, exit, insertionCount,
                   retErr, pool, received, result, writes, lateDeq>>
    /\ UNCHANGED bbVars

\* end of input: the channel is closed and StreamDocument returns nil
ProducerEOF ==
    /\ producer.pc = "streaming"
    /\ producer.next > cfg.n
    /\ closed' = TRUE
    /\ producer' = [producer EXCEPT !.pc = "returned", !.err = Nil]
    /\ UNCHANGED <<cfg, replicas, readDocs, tomb, pc, bb, hold, werr, exit, insertionCount,
                   retErr, pool, received, result, writes, lateDeq>>
    /\ UNCHANGED bbVars

\* --- runInsertionWorker
\* mutant: the errors of GetSession and configureSession are ignored
WorkerConnectIgnoresError(w) ==
    /\ pc[w] = "connecting"
    /\ pc' = [pc EXCEPT ![w] = "draining"]
    /\ bb' = IF cfg.upsert THEN bb
             ELSE [bb EXCEPT ![w] = NewBufferedBulkInserter(cfg.docLimit)]
    /\ UNCHANGED <<cfg, replicas, readDocs, closed, producer, tomb, hold, werr, exit,
                   insertionCount, retErr, pool, received, result, writes, lateDeq>>
    /\ UNCHANGED bbVars

\* GetSession and configureSession, then the inserter is created: an upserter
\* under Upsert (it has no buffer: bb[w] stays as it is), else a
\* BufferedBulkInserter
WorkerConnect(w) ==
    /\ pc[w] = "connecting"
    /\ IF cfg.sessErr[w] = Nil
       THEN /\ pc' = [pc EXCEPT ![w] = "draining"]
            /\ bb' = IF cfg.upsert THEN bb
                     ELSE [bb EXCEPT ![w] = NewBufferedBulkInserter(cfg.docLimit)]
            /\ UNCHANGED <<werr, exit>>
       ELSE /\ pc' = [pc EXCEPT ![w] = "returned"]
            /\ werr' = [werr EXCEPT ![w] = cfg.sessErr[w]]
            /\ exit' = [exit EXCEPT ![w] = "session"]
            /\ UNCHANGED bb
    /\ UNCHANGED <<cfg, replicas, readDocs, closed, producer, tomb, hold, insertionCount,
                   retErr, pool, received, result, writes, lateDeq>>
    /\ UNCHANGED bbVars

\* what follows inserter.Insert(document) in the read loop
AfterInsert(w, r) ==
    LET e == filterIngestError(cfg.stopOnError, r.err) IN
    /\ bb' = [bb EXCEPT ![w] = r.bb]
    /\ IF e # Nil
       THEN /\ pc' = [pc EXCEPT ![w] = "returned"]
            /\ werr' = [werr EXCEPT ![w] = e]
            /\ exit' = [exit EXCEPT ![w] = "error"]
            /\ UNCHANGED insertionCount
       ELSE /\ pc' = [pc EXCEPT ![w] = "draining"]
            /\ insertionCount' = insertionCount + 1
            /\ UNCHANGED <<werr, exit>>

\* select case document, alive := <-readDocs with a document: Insert it; when
\* Insert has to flush, the batch is submitted and the worker waits for the
\* store; the upserter submits every document at once, on its own
WorkerRecv(w) ==
    /\ pc[w] = "draining"
    /\ readDocs # <<>>
    /\ LET doc == Head(readDocs) IN
       /\ readDocs' = Tail(readDocs)
       /\ lateDeq' = IF tomb.dying THEN lateDeq \cup {doc.id} ELSE lateDeq
       /\ IF cfg.upsert \/ InsertRuns(bb[w], doc)
          THEN /\ pc' = [pc EXCEPT ![w] = "inserting"]
               /\ hold' = [hold EXCEPT ![w] = doc]
               /\ writes' = Append(writes, [w |-> w,
                                            docs |-> IF cfg.upsert THEN <<doc>>
                                                     ELSE bb[w].bulk,
                                            trigger |-> doc.id, late |-> tomb.dying,
                                            acked |-> FALSE,
                                            waited |-> Blocked, err |-> Nil])
               /\ UNCHANGED <<bb, werr, exit, insertionCount>>
          ELSE /\ AfterInsert(w, Insert(bb[w], doc, Nil))
               /\ UNCHANGED <<hold, writes>>
    /\ UNCHANGED <<cfg, replicas, closed, producer, tomb, retErr, pool, received, result>>
    /\ UNCHANGED bbVars

\* the index in writes of the batch worker w is waiting for
Pending(w) == CHOOSE i \in 1..Len(writes) : writes[i].w = w /\ ~writes[i].acked

\* the store answers the batch submitted by Insert: Insert resets the bulk,
\* buffers the held document and returns the error of the flush; the
\* upserter returns the error of its one write
InsertAck(w) ==
    /\ pc[w] = "inserting"
    /\ ~Blocked
    /\ LET i == Pending(w)
           res == StoreRun(writes[i].docs)
       IN  /\ writes' = [writes EXCEPT ![i].acked = TRUE, ![i].err = res.err]
           /\ AfterInsert(w, IF cfg.upsert
                              THEN UpserterInsert(bb[w], cfg.upsertKeys, hold[w],
                                                  res.err)
                              ELSE Insert(bb[w], hold[w], res.err))
    /\ hold' = [hold EXCEPT ![w] = NoDoc]
    /\ UNCHANGED <<cfg, replicas, readDocs, closed, producer, tomb, retErr, pool, received,
                   result, lateDeq>>
    /\ UNCHANGED bbVars

\* mutant: the worker leaves the read loop without the final inserter.Flush()
WorkerClosedNoFlush(w) ==
    /\ pc[w] = "draining"
    /\ readDocs = <<>>
    /\ closed
    /\ pc' = [pc EXCEPT ![w] = "returned"]
    /\ werr' = [werr EXCEPT ![w] = Nil]
    /\ exit' = [exit EXCEPT ![w] = "closed"]
    /\ UNCHANGED <<cfg, replicas, readDocs, closed, producer, tomb, bb, hold, insertionCount,
                   retErr, pool, received, result, writes, lateDeq>>
    /\ UNCHANGED bbVars

\* select case with readDocs closed and empty: break readLoop, then
\* inserter.Flush(); an empty inserter returns nil at once
WorkerClosed(w) ==
    /\ pc[w] = "draining"
    /\ readDocs = <<>>
    /\ closed
    /\ IF cfg.upsert \/ bb[w].docCount = 0
       THEN /\ pc' = [pc EXCEPT ![w] = "returned"]
            /\ werr' = [werr EXCEPT ![w] =
                           filterIngestError(cfg.stopOnError,
                                             IF cfg.upsert THEN UpserterFlush(bb[w]).err
                                             ELSE Flush(bb[w], Nil).err)]
            /\ exit' = [exit EXCEPT ![w] = "closed"]
            /\ UNCHANGED writes
       ELSE /\ pc' = [pc EXCEPT ![w] = "flushing"]
            /\ writes' = Append(writes, [w |-> w, docs |-> bb[w].bulk,
                                         trigger |-> 0, late |-> tomb.dying,
                                         acked |-> FALSE,
                                            waited |-> Blocked, err |-> Nil])
            /\ UNCHANGED <<werr, exit>>
    /\ UNCHANGED <<cfg, replicas, readDocs, closed, producer, tomb, bb, hold, insertionCount,
                   retErr, pool, received, result, lateDeq>>
    /\ UNCHANGED bbVars

\* the store answers the batch of the final Flush
FlushAck(w) ==
    /\ pc[w] = "flushing"
    /\ ~Blocked
    /\ LET i == Pending(w)
           r == Flush(bb[w], StoreRun(writes[i].docs).err)
       IN  /\ writes' = [writes EXCEPT ![i].acked = TRUE, ![i].err = r.err]
           /\ bb' = [bb EXCEPT ![w] = r.bb]
           /\ werr' = [werr EXCEPT ![w] = filterIngestError(cfg.stopOnError, r.err)]
    /\ pc' = [pc EXCEPT ![w] = "returned"]
    /\ exit' = [exit EXCEPT ![w] = "closed"]
    /\ UNCHANGED <<cfg, replicas, readDocs, closed, producer, tomb, hold, insertionCount,
                   retErr, pool, received, result, lateDeq>>
    /\ UNCHANGED bbVars

\* mutant: a worker that sees the tomb dying flushes its buffer before leaving
WorkerDyingFlushes(w) ==
    /\ pc[w] = "draining"
    /\ tomb.dying
    /\ exit' = [exit EXCEPT ![w] = "cancel"]
    /\ IF bb[w].docCount = 0
       THEN /\ pc' = [pc EXCEPT ![w] = "returned"]
            /\ UNCHANGED writes
       ELSE /\ pc' = [pc EXCEPT ![w] = "flushing"]
            /\ writes' = Append(writes, [w |-> w, docs |-> bb[w].bulk,
                                         trigger |-> 0, late |-> tomb.dying,
                                         acked |-> FALSE,
                                            waited |-> Blocked, err |-> Nil])
    /\ UNCHANGED <<cfg, replicas, readDocs, closed, producer, tomb, bb, hold, werr,
                   insertionCount, retErr, pool, received, result, lateDeq>>
    /\ UNCHANGED bbVars

\* mutant: the read loop has no <-imp.Dying() case
WorkerNeverDying(w) ==
    /\ FALSE
    /\ UNCHANGED vars

\* select case <-imp.Dying(): return nil, nothing is flushed
WorkerDying(w) ==
    /\ pc[w] = "draining"
    /\ tomb.dying
    /\ pc' = [pc EXCEPT ![w] = "returned"]
    /\ werr' = [werr EXCEPT ![w] = Nil]
    /\ exit' = [exit EXCEPT ![w] = "cancel"]
    /\ UNCHANGED <<cfg, replicas, readDocs, closed, producer, tomb, bb, hold, insertionCount,
                   retErr, pool, received, result, writes, lateDeq>>
    /\ UNCHANGED bbVars

\* --- ingestDocuments
\* mutant: the first error is kept but the tomb is not killed
WorkerReportNoKill(w) ==
    /\ pc[w] = "returned"
    /\ IF werr[w] # Nil /\ retErr = Nil
       THEN retErr' = werr[w]
       ELSE UNCHANGED retErr
    /\ pc' = [pc EXCEPT ![w] = "done"]
    /\ UNCHANGED <<cfg, replicas, readDocs, closed, producer, tomb, bb, hold, werr, exit,
                   insertionCount, pool, received, result, writes, lateDeq>>
    /\ UNCHANGED bbVars

\* mutant: every non-nil error is stored in retErr, not only the first
WorkerReportOverwrites(w) ==
    /\ pc[w] = "returned"
    /\ IF werr[w] # Nil
       THEN /\ retErr' = werr[w]
            /\ tomb' = Kill(tomb, werr[w])
       ELSE UNCHANGED <<retErr, tomb>>
    /\ pc' = [pc EXCEPT ![w] = "done"]
    /\ UNCHANGED <<cfg, replicas, readDocs, closed, producer, bb, hold, werr, exit,
                   insertionCount, pool, received, result, writes, lateDeq>>
    /\ UNCHANGED bbVars

\* the goroutine wrapping a worker: under the mutex, the first non-nil error
\* is kept in retErr and kills the tomb; then wg.Done()
WorkerReport(w) ==
    /\ pc[w] = "returned"
    /\ IF werr[w] # Nil /\ retErr = Nil
       THEN /\ retErr' = werr[w]
            /\ tomb' = Kill(tomb, werr[w])
       ELSE UNCHANGED <<retErr, tomb>>
    /\ pc' = [pc EXCEPT ![w] = "done"]
    /\ UNCHANGED <<cfg, replicas, readDocs, closed, producer, bb, hold, werr, exit,
                   insertionCount, pool, received, result, writes, lateDeq>>
    /\ UNCHANGED bbVars

\* wg.Wait() is over: ingestDocuments returns retErr
PoolReturn ==
    /\ pool = "waiting"
    /\ \A w \in Active : pc[w] = "done"
    /\ pool' = "returned"
    /\ UNCHANGED <<cfg, replicas, readDocs, closed, producer, tomb, pc, bb, hold, werr, exit,
                   insertionCount, retErr, received, result, writes, lateDeq>>
    /\ UNCHANGED bbVars

\* --- importDocuments
\* processingErrChan is unbuffered: a goroutine's send completes when
\* channelQuorumError receives it
RecvProducer ==
    /\ producer.pc = "returned"
    /\ Len(received) < Quorum
    /\ received' = Append(received, [from |-> "producer", err |-> producer.err])
    /\ producer' = [producer EXCEPT !.pc = "done"]
    /\ UNCHANGED <<cfg, replicas, readDocs, closed, tomb, pc, bb, hold, werr, exit,
                   insertionCount, retErr, pool, result, writes, lateDeq>>
    /\ UNCHANGED bbVars

RecvPool ==
    /\ pool = "returned"
    /\ Len(received) < Quorum
    /\ received' = Append(received, [from |-> "pool", err |-> retErr])
    /\ pool' = "done"
    /\ UNCHANGED <<cfg, replicas, readDocs, closed, producer, tomb, pc, bb, hold, werr, exit,
                   insertionCount, retErr, result, writes, lateDeq>>
    /\ UNCHANGED bbVars

\* mutant: importDocuments returns after the first value read from the channel
ImportReturnAfterOne ==
    /\ result = NoResult
    /\ Len(received) >= 1
    /\ result' = [count |-> insertionCount, err |-> channelQuorumError(received)]
    /\ UNCHANGED <<cfg, replicas, readDocs, closed, producer, tomb, pc, bb, hold, werr, exit,
                   insertionCount, retErr, pool, received, writes, lateDeq>>
    /\ UNCHANGED bbVars

\* channelQuorumError has its quorum: load insertionCount and return
ImportReturn ==
    /\ result = NoResult
    /\ Len(received) = Quorum
    /\ result' = [count |-> insertionCount, err |-> channelQuorumError(received)]
    /\ UNCHANGED <<cfg, replicas, readDocs, closed, producer, tomb, pc, bb, hold, werr, exit,
                   insertionCount, retErr, pool, received, writes, lateDeq>>
    /\ UNCHANGED bbVars

\* --- the replica set
\* the stopped members replicate again
ReplicasResume ==
    /\ ~replicas
    /\ replicas' = TRUE
    /\ UNCHANGED <<cfg, readDocs, closed, producer, tomb, pc, bb, hold, werr, exit,
                   insertionCount, retErr, pool, received, result, writes, lateDeq>>
    /\ UNCHANGED bbVars

WorkerStep(w) ==
    \/ WorkerConnect(w)
    \/ WorkerRecv(w)
    \/ InsertAck(w)
    \/ WorkerClosed(w)
    \/ FlushAck(w)
    \/ WorkerDying(w)
    \/ WorkerReport(w)

ProducerStep ==
    \/ ProducerSend
    \/ ProducerDecodeError
    \/ ProducerEOF

Next ==
    \/ ProducerStep
    \/ \E w \in Workers : WorkerStep(w)
    \/ PoolReturn
    \/ RecvProducer
    \/ RecvPool
    \/ ImportReturn
    \/ ReplicasResume

Spec == Init /\ [][Next]_vars

\* every worker goroutine that can run eventually runs, the store eventually
\* answers a submitted batch (stopped members eventually replicate again), and
\* a send on processingErrChan is eventually received.  Nothing is assumed of the producer: it reads a file or stdin and
\* may wait for input for ever.
Fairness ==
    /\ \A w \in Workers : WF_vars(WorkerStep(w))
    /\ WF_vars(PoolReturn)
    /\ WF_vars(RecvProducer)
    /\ WF_vars(RecvPool)
    /\ WF_vars(ImportReturn)
    /\ WF_vars(ReplicasResume)

\* the runs of LiveSpec: the long runs, and the small runs over the shortest
\* inputs, with batches of one document; a session fails in GetSession (a
\* failure in configureSession takes the same steps)
LiveConfig(c) ==
    \/ c.n > MaxRecords
    \/ /\ c.n <= MaxLiveRecords
       /\ c.docLimit = 1
       /\ \A w \in Workers : c.sessErr[w] # "configure"

LiveInit ==
    /\ ShortStart(LiveConfig) \/ LongStart(LiveConfig)
    /\ bbx = NewBufferedBulkInserter(1)
    /\ BBStart

LiveSpec == LiveInit /\ [][Next]_vars /\ Fairness

\* a run in which nothing fails: every record is well-formed and accepted by
\* the store, every worker gets its session and no write concern times out
ErrorFree(c) ==
    c.bad = {} /\ c.decodeErrAt = 0 /\ c.sessErr = NoSessErr /\ ~c.wtimeout

\* the runs of FairSpec: every small run without failure, and the runs of
\* LiveSpec with one or two workers
FairConfig(c) == ErrorFree(c) \/ (LiveConfig(c) /\ c.workers <= 2)

FairInit ==
    /\ ShortStart(FairConfig) \/ LongStart(FairConfig)
    /\ bbx = NewBufferedBulkInserter(1)
    /\ BBStart

\* the input is finite and at hand: the producer goroutine also keeps running
FairSpec == FairInit /\ [][Next]_vars /\ Fairness /\ WF_vars(ProducerStep)

\* ------------------------------------------------------------------------
\* SpecBB
\* ------------------------------------------------------------------------
\* serialized sizes fed to a small inserter: tiny, more than half the ceiling,
\* exactly the ceiling, one byte over the ceiling
Sizes == {1, (MaxBulkSize \div 2) + 1, MaxBulkSize, MaxBulkSize + 1}

RunResults == {Nil, "write"}

\* docLimit is ToolOptions.BulkBufferSize, which ValidateSettings keeps >= 1
DocLimits == (1..MaxDocLimit) \cup {BulkDocLimit + 1}

IsLong(b) == b.docLimit > MaxDocLimit

FeedLimit(b) == IF IsLong(b) THEN BulkDocLimit + MaxFeed ELSE MaxFeed

NextDocs(b, n) ==
    IF IsLong(b)
    THEN {[id |-> n, size |-> 1, enc |-> TRUE]}
    ELSE {[id |-> n, size |-> s, enc |-> TRUE] : s \in Sizes}
         \cup {[id |-> n, size |-> 0, enc |-> FALSE]}

InitBB ==
    /\ \E dl \in DocLimits : bbx = NewBufferedBulkInserter(dl)
    /\ BBStart
    /\ PipeStart(IdleConfig)

BBInsert ==
    /\ Len(fed) < FeedLimit(bbx)
    /\ \E doc \in NextDocs(bbx, Len(fed) + 1) :
       \E res \in (IF InsertRuns(bbx, doc) THEN RunResults ELSE {Nil}) :
          LET r == Insert(bbx, doc, res) IN
          /\ bbx' = r.bb
          /\ ran' = ran \o r.ran
          /\ fed' = Append(fed, doc)
          /\ lastCall' = [op |-> "Insert", err |-> r.err, runs |-> Len(r.ran),
                          prev |-> lastCall.op, res |-> res]
    /\ UNCHANGED drains
    /\ UNCHANGED pipeVars

BBFlush ==
    /\ drains < MaxDrains
    /\ IsLong(bbx) => Len(fed) >= BulkDocLimit
    /\ \E res \in (IF bbx.docCount # 0 THEN RunResults ELSE {Nil}) :
          LET r == Flush(bbx, res) IN
          /\ bbx' = r.bb
          /\ ran' = ran \o r.ran
          /\ lastCall' = [op |-> "Flush", err |-> r.err, runs |-> Len(r.ran),
                          prev |-> lastCall.op, res |-> res]
    /\ drains' = drains + 1
    /\ UNCHANGED fed
    /\ UNCHANGED pipeVars

NextBB == BBInsert \/ BBFlush

SpecBB == InitBB /\ [][NextBB]_vars

\* ------------------------------------------------------------------------
\* Claims about the lone inserter (checked under SpecBB)
\* ------------------------------------------------------------------------
BatchSizes(batches) == [i \in 1..Len(batches) |-> Len(batches[i])]

NoOversizeFed == \A d \in Range(fed) : d.size <= MaxBulkSize

\* C1: whatever Insert and Flush calls are made on an inserter with
\* docLimit >= 1, as long as no single document is larger than MaxBulkSize on
\* its own, every batch handed to Run holds at most min(docLimit, BulkDocLimit)
\* documents and at most MaxBulkSize bytes.
C1_BatchWithinCeilings ==
    NoOversizeFed =>
        \A i \in 1..Len(ran) :
            /\ Len(ran[i]) <= Min(bbx.docLimit, BulkDocLimit)
            /\ SumSize(ran[i]) <= MaxBulkSize

\* a batch of exactly BulkDocLimit documents was run although docLimit is larger
C1_Witness ==
    /\ bbx.docLimit > BulkDocLimit
    /\ NoOversizeFed
    /\ \E i \in 1..Len(ran) : Len(ran[i]) = BulkDocLimit

\* the batch sizes of ceil(n/d) full batches and a final remainder
ExpectedSizes(n, d) ==
    [i \in 1..((n + d - 1) \div d) |-> IF i * d <= n THEN d ELSE n - (i - 1) * d]

\* N documents were fed, all encodable, and then Flush was called once
FedThenDrained ==
    /\ lastCall.op = "Flush"
    /\ drains = 1
    /\ \A d \in Range(fed) : d.enc

\* C2: when the byte ceiling never binds, feeding N documents and then draining
\* runs exactly ceil(N/D) batches of sizes D, ..., D and a final remainder,
\* D = min(docLimit, BulkDocLimit).
C2_CeilBatches ==
    (FedThenDrained /\ SumSize(fed) <= MaxBulkSize) =>
        BatchSizes(ran) = ExpectedSizes(Len(fed), Min(bbx.docLimit, BulkDocLimit))

\* ------------------------------------------------------------------------
\* Claims about the pipeline (checked under Spec, C9 under LiveSpec)
\* ------------------------------------------------------------------------
DocIds(docs) == {docs[i].id : i \in 1..Len(docs)}

\* the ids the store has written: what StoreRun wrote of every answered batch
Stored == UNION {StoreRun(writes[i].docs).written :
                    i \in {j \in 1..Len(writes) : writes[j].acked}}

Returned == result # NoResult

NoSessionFailure == \A w \in Workers : cfg.sessErr[w] = Nil

\* C3: once the tomb is dying, no worker dequeues a further record and
\* submits a batch for it: no batch submitted after the trip was triggered by,
\* or contains, a document dequeued after the trip.
C3_NoLateFlush ==
    \A i \in 1..Len(writes) :
        writes[i].late =>
            /\ writes[i].trigger \notin lateDeq
            /\ DocIds(writes[i].docs) \cap lateDeq = {}

\* C4: a worker that left the read loop through <-imp.Dying() has returned
\* without flushing: it has no batch in flight and none of the documents
\* still buffered in its inserter is in any batch submitted to the store.
C4_CancelledBufferNotWritten ==
    \A w \in Active :
        exit[w] = "cancel" =>
            /\ pc[w] \in {"returned", "done"}
            /\ werr[w] = Nil
            /\ \A i \in 1..Len(writes) :
                  /\ writes[i].w = w => writes[i].acked
                  /\ DocIds(writes[i].docs) \cap DocIds(bb[w].bulk) = {}
            /\ DocIds(bb[w].bulk) \cap Stored = {}

\* the run is over and a cancelled worker still holds unwritten documents
C4_Witness ==
    /\ Returned
    /\ \E w \in Active : exit[w] = "cancel" /\ bb[w].bulk # <<>>

\* the store rejects the batch worker w is waiting for
WriteFails(w) ==
    /\ pc[w] \in {"inserting", "flushing"}
    /\ StoreRun(writes[Pending(w)].docs).err # Nil

\* worker w receives the store's answer in this step
Answered(w) == pc[w] \in {"inserting", "flushing"} /\ pc'[w] # pc[w]

\* the step a worker takes when its write fails, by policy
C5_FailureStep ==
    \A w \in Active :
        (WriteFails(w) /\ Answered(w)) =>
            IF cfg.stopOnError
            THEN /\ pc'[w] = "returned"
                 /\ werr'[w] # Nil
                 /\ insertionCount' = insertionCount
            ELSE /\ werr'[w] = Nil
                 /\ tomb' = tomb
                 /\ pc[w] = "inserting" => pc'[w] = "draining"

\* C5: a write failure is handled by the stop-on-error policy.  Under stop the
\* worker returns the error at once and, when its goroutine has reported, the
\* tomb is dying.  Under continue the worker returns no error for it, goes on
\* with the read loop, and write failures never trip the tomb.
C5_StopOrContinue ==
    /\ [][C5_FailureStep]_vars
    /\ [](\A w \in Active : (pc[w] = "done" /\ werr[w] # Nil) => tomb.dying)
    /\ []((~cfg.stopOnError /\ NoSessionFailure) =>
             (~tomb.dying /\ \A w \in Active : werr[w] = Nil))

\* a write failed under stop, its worker has reported and the tomb is dying
C5_Witness ==
    /\ cfg.stopOnError
    /\ tomb.dying
    /\ \E w \in Active : exit[w] = "error" /\ werr[w] = "dup" /\ pc[w] = "done"

\* a run of one worker with write failures as the only failures
OnlyWriteFailures == cfg.workers = 1 /\ cfg.decodeErrAt = 0 /\ NoSessionFailure

\* C6: continue-on-error, one worker, the store rejects k of the N records:
\* the run returns nil and N - k, the number of records written.
C6_ContinueCount ==
    (Returned /\ ~cfg.stopOnError /\ OnlyWriteFailures) =>
        /\ result.err = Nil
        /\ result.count = cfg.n - Cardinality(cfg.bad)
        /\ result.count = Cardinality(Stored)

\* C7: stop-on-error, one worker, ordered batches, the store rejects record j:
\* the run returns the write error and j - 1, the number of records written
\* before the failure, and no batch follows the failing one.
C7_StopCount ==
    \A j \in 1..cfg.n :
        (Returned /\ cfg.stopOnError /\ cfg.maintainInsertionOrder
                  /\ OnlyWriteFailures /\ cfg.bad = {j}) =>
            /\ result.err = "dup"
            /\ result.count = j - 1
            /\ \A i \in 1..Len(writes) :
                  StoreRun(writes[i].docs).err # Nil => i = Len(writes)

\* C8: importDocuments returns only after the producer and the worker pool
\* have both delivered their terminal value; it returns nil when both are nil
\* and otherwise the first non-nil value it received.
C8_ReturnsAfterBoth ==
    Returned =>
        /\ producer.pc = "done"
        /\ pool = "done"
        /\ Len(received) = 2
        /\ {received[1].from, received[2].from} = {"producer", "pool"}
        /\ \A i \in 1..2 :
              received[i].err = IF received[i].from = "producer"
                                THEN producer.err ELSE retErr
        /\ result.err = IF received[1].err # Nil THEN received[1].err
                        ELSE received[2].err

\* both parties ended with an error and the one read first was returned
C8_Witness ==
    /\ Returned
    /\ Len(received) = 2
    /\ received[1].err # Nil
    /\ received[2].err # Nil
    /\ received[1].err # received[2].err
    /\ result.err = received[1].err

PoolDelivered == (\A w \in Active : pc[w] = "done") /\ pool = "done"

\* C9: after a worker's fatal error has tripped the tomb, every worker
\* eventually is done and the pool eventually delivers its terminal value,
\* also when readDocs is empty and has not been closed.
C9_PoolTerminates == tomb.dying ~> PoolDelivered

\* the pool has delivered although readDocs was never closed, a worker having
\* left an empty, open channel through <-imp.Dying()
C9_Witness ==
    /\ tomb.dying
    /\ PoolDelivered
    /\ ~closed
    /\ readDocs = <<>>
    /\ \E w \in Active : exit[w] = "cancel"

\* C10: after a worker's fatal error has tripped the tomb the producer stops
\* as well: once no worker remains, the producer has returned or can still
\* take a step; it is not blocked on a full readDocs for ever.
C10_ProducerNotStuck ==
    (tomb.dying /\ \A w \in Active : pc[w] = "done") =>
        (producer.pc # "streaming" \/ ENABLED ProducerStep)

\* the pipeline has wound down cleanly: readDocs is closed, every worker left
\* its read loop through the closed channel, flushed and is done, every record
\* is in the store and importDocuments returned (n, nil)
CleanFinish ==
    /\ closed
    /\ readDocs = <<>>
    /\ \A w \in Active : /\ pc[w] = "done"
                         /\ exit[w] = "closed"
                         /\ bb[w].bulk = <<>>
    /\ \A i \in 1..Len(writes) : writes[i].acked
    /\ Stored = 1..cfg.n
    /\ result = [count |-> cfg.n, err |-> Nil]

\* C11: in a run without failure, for every number of workers and every
\* finite input of n records, the pipeline eventually terminates: readDocs is
\* closed, every worker leaves the read loop, flushes and is done, and
\* importDocuments returns (n, nil).
C11_Terminates == ErrorFree(cfg) ~> CleanFinish

\* a clean finish of two workers that each wrote a batch
C11_Witness ==
    /\ ErrorFree(cfg)
    /\ CleanFinish
    /\ cfg.workers >= 2
    /\ \A w \in Active : \E i \in 1..Len(writes) : writes[i].w = w

\* the records taken off readDocs so far
Dequeued == (producer.next - 1) - Len(readDocs)

\* the places of record id in the batches submitted to the store
InBatches(id) ==
    {p \in UNION {{<<i, j>> : j \in 1..Len(writes[i].docs)} : i \in 1..Len(writes)} :
        writes[p[1]].docs[p[2]].id = id}

\* the workers that hold record id, in hand or in their bulk
Holders(id) == {w \in Active : hold[w].id = id \/ id \in DocIds(bb[w].bulk)}

\* the places of record id in readDocs
InQueue(id) == {j \in 1..Len(readDocs) : readDocs[j].id = id}

\* C12: a record of readDocs is dequeued by exactly one worker and counted at
\* most once; no record is submitted in two batches; in a run without failure
\* every produced record is in exactly one submitted batch; the returned count
\* never exceeds the number of records produced.
C12_ExactlyOnce ==
    /\ \A id \in 1..cfg.n :
          /\ Cardinality(InQueue(id)) + Cardinality(Holders(id)) <= 1
          /\ Cardinality(InBatches(id)) <= 1
          /\ \A p \in InBatches(id) : \A w \in Holders(id) : writes[p[1]].w = w
    /\ insertionCount <= Dequeued
    /\ Dequeued <= cfg.n
    /\ Returned => result.count <= producer.next - 1
    /\ (Returned /\ ErrorFree(cfg)) =>
          \A id \in 1..cfg.n : Cardinality(InBatches(id)) = 1

\* a run without failure is over in which two workers each submitted a batch
C12_Witness ==
    /\ Returned
    /\ ErrorFree(cfg)
    /\ cfg.n >= 2
    /\ result.count = cfg.n
    /\ \E i, k \in 1..Len(writes) : writes[i].w # writes[k].w

\* C13: Flush is idempotent: a Flush that directly follows a Flush, with no
\* Insert between them, performs no store write and returns nil, so that the
\* two make at most one write; a Flush of an inserter nothing was inserted
\* into performs no write and returns nil.
C13_FlushIdempotent ==
    /\ (lastCall.op = "Flush" /\ lastCall.prev = "Flush") =>
          (lastCall.runs = 0 /\ lastCall.err = Nil)
    /\ (lastCall.op = "Flush" /\ fed = <<>>) =>
          (lastCall.runs = 0 /\ lastCall.err = Nil)

\* the options ask for ordered insertion: --maintainInsertionOrder, --upsert
\* or non-empty --upsertFields
OrderRequested == cfg.mioFlag \/ cfg.upsertFlag \/ cfg.upsertFields # ""

\* the workers ingestDocuments started
Launched == {w \in Workers : pc[w] # "absent"}

\* C14: when MaintainInsertionOrder is set or upsert mode is enabled (by its
\* flag or by non-empty upsert fields), the configured number of insertion
\* workers is exactly one and the pool launches exactly one worker.
C14_SingleWorker ==
    OrderRequested => (cfg.workers = 1 /\ Launched = {1})

\* a run with --upsertFields alone and more than one worker requested is
\* over, its one worker having written
C14_Witness ==
    /\ cfg.upsertFields # ""
    /\ ~cfg.mioFlag
    /\ ~cfg.upsertFlag
    /\ cfg.requested >= 2
    /\ Returned
    /\ Launched = {1}
    /\ writes # <<>>

\* a batch write was answered with a write concern timeout
TimedOut == \E i \in 1..Len(writes) : writes[i].acked /\ writes[i].err = "wtimeout"

\* C15: without stop-on-error, an import one of whose batch writes could not
\* meet the write concern within its wtimeout returns a non-nil error, and an
\* import whose write concern can be met (nothing else failing) returns nil.
C15_TimeoutFails ==
    (Returned /\ ~cfg.stopOnError) =>
        /\ TimedOut => result.err # Nil
        /\ (cfg.replicasUp /\ ErrorFree(cfg)) => result.err = Nil

\* worker w has a batch in flight that waits for a write concern without
\* wtimeout
Waiting(w) ==
    /\ pc[w] \in {"inserting", "flushing"}
    /\ ~replicas
    /\ ~cfg.wtimeout

\* a batch that had to wait for its write concern has been acknowledged
WaitedAndAcked == \E i \in 1..Len(writes) : writes[i].waited /\ writes[i].acked

\* C16: while a submitted batch waits for a write concern without wtimeout,
\* importDocuments does not return and the worker stays in its call (it takes
\* no other step, whatever the tomb says); once the store has acknowledged
\* the batch, nothing else failing, the run eventually returns (n, nil).
C16_WaitsThenCompletes ==
    /\ [](\A w \in Active :
            Waiting(w) => /\ ~Returned
                          /\ pool = "waiting"
                          /\ ~writes[Pending(w)].acked
                          /\ ~ENABLED WorkerStep(w))
    /\ (ErrorFree(cfg) /\ WaitedAndAcked)
          ~> (Returned /\ result = [count |-> cfg.n, err |-> Nil])

\* a run whose batch had to wait for the write concern has returned (n, nil)
C16_Witness ==
    /\ ErrorFree(cfg)
    /\ WaitedAndAcked
    /\ Returned
    /\ result = [count |-> cfg.n, err |-> Nil]

\* C17: a worker that cannot get its session, or cannot configure it, returns
\* that error whatever the stop-on-error policy, without having taken a
\* record off readDocs (it never enters the read loop and submits nothing),
\* and once reported the error has killed the tomb.
C17_SessionFailure ==
    \A w \in Active :
        cfg.sessErr[w] # Nil =>
            /\ pc[w] \in {"connecting", "returned", "done"}
            /\ pc[w] # "connecting" =>
                  (exit[w] = "session" /\ werr[w] = cfg.sessErr[w])
            /\ hold[w] = NoDoc
            /\ bb[w].bulk = <<>>
            /\ \A i \in 1..Len(writes) : writes[i].w # w
            /\ pc[w] = "done" => (tomb.dying /\ retErr # Nil)

\* without stop-on-error, over a non-empty input, a worker failed to get its
\* session and the run returned that error
C17_Witness ==
    /\ ~cfg.stopOnError
    /\ cfg.n >= 1
    /\ Returned
    /\ \E w \in Active : /\ exit[w] = "session"
                         /\ tomb.reason = werr[w]
                         /\ result.err = werr[w]

\* a step of the first-error slot and the tomb: the slot is written and the
\* tomb is killed together, by a worker that reports a non-nil error while
\* the slot is empty; a written slot and a dying tomb never change again
FirstErrorStep ==
    /\ (retErr = Nil) = ~tomb.dying
    /\ tomb.reason = retErr
    /\ retErr # Nil => (retErr' = retErr /\ tomb' = tomb)
    /\ (retErr = Nil /\ retErr' # Nil) =>
          \E w \in Active : /\ pc[w] = "returned"
                             /\ pc'[w] = "done"
                             /\ werr[w] = retErr'
                             /\ tomb' = [dying |-> TRUE, reason |-> werr[w]]
    /\ (~tomb.dying /\ retErr' = Nil) => ~tomb'.dying

\* C18: the first-error slot is written at most once and the tomb is killed
\* at most once, both by the first worker that reports a non-nil error; a
\* later error never overwrites the slot, and a dying tomb is never alive
\* again.
C18_FirstErrorOnce == [][FirstErrorStep]_vars

\* two workers have reported different non-nil errors and the slot holds the
\* one of the two that killed the tomb
C18_Witness ==
    \E v, w \in Active :
        /\ pc[v] = "done"
        /\ pc[w] = "done"
        /\ werr[v] # Nil
        /\ werr[w] # Nil
        /\ werr[v] # werr[w]
        /\ retErr = werr[v]
        /\ tomb = [dying |-> TRUE, reason |-> werr[v]]

\* the ids of a sequence of documents
Ids(docs) == [j \in 1..Len(docs) |-> docs[j].id]

\* the ids of the records worker w submitted in its first i batches, batch
\* after batch
RECURSIVE SubmittedBy(_, _)
SubmittedBy(w, i) ==
    IF i = 0 THEN <<>>
    ELSE SubmittedBy(w, i - 1)
         \o (IF writes[i].w = w THEN Ids(writes[i].docs) ELSE <<>>)

Increasing(seq) == \A j \in 1..(Len(seq) - 1) : seq[j] < seq[j + 1]

\* C19: the records of one worker reach the store in the order the worker
\* took them off readDocs (which is the order of production): its batches are
\* submitted in the order of their creation and each lists its records in the
\* order of their receipt; with one worker the store receives the records in
\* the order of production, none skipped.
C19_DequeueOrder ==
    /\ \A w \in Active :
          /\ Increasing(SubmittedBy(w, Len(writes)))
          /\ Increasing(Ids(bb[w].bulk))
    /\ cfg.workers = 1 =>
          \A j \in 1..Len(SubmittedBy(1, Len(writes))) :
              SubmittedBy(1, Len(writes))[j] = j

\* the one worker of a run has submitted several batches, one of them of
\* several records
C19_Witness ==
    /\ cfg.workers = 1
    /\ Returned
    /\ Len(writes) >= 2
    /\ \E i \in 1..Len(writes) : Len(writes[i].docs) >= 2

\* C20: readDocs never holds more than workerBufferSize (16) records; while
\* it is full the producer cannot send, and sends again only after a worker
\* has taken a record off it.
C20_BoundedQueue ==
    /\ Len(readDocs) <= workerBufferSize
    /\ Len(readDocs) = workerBufferSize =>
          /\ ~ENABLED ProducerSend
          /\ (producer.pc = "streaming" /\ producer.next <= cfg.n) =>
                ~ENABLED ProducerStep

\* readDocs is full and the producer has a further record to send
C20_Witness ==
    /\ Len(readDocs) = workerBufferSize
    /\ producer.pc = "streaming"
    /\ producer.next <= cfg.n
    /\ \E w \in Active : pc[w] = "draining"

\* the counters of the lone inserter describe what it buffers
CountersMatch ==
    /\ bbx.docCount = Len(bbx.bulk)
    /\ bbx.byteCount = SumSize(bbx.bulk)

\* C21: right after a Flush of an inserter that held documents, whether
\* bulk.Run succeeded or failed, the inserter is a fresh empty batch: no
\* buffered document, docCount 0 and byteCount 0; hence docCount and
\* byteCount always are the number and the total size of the buffered
\* documents.
C21_FreshAfterFlush ==
    /\ (lastCall.op = "Flush" /\ lastCall.runs > 0) =>
          (bbx.bulk = <<>> /\ bbx.docCount = 0 /\ bbx.byteCount = 0)
    /\ CountersMatch

\* the document passed to the Insert of this step
Inserted == fed'[Len(fed')]

\* this step's Insert buffered its document: it is the last of the bulk, after
\* the documents that were buffered unless they were handed to bulk.Run, and
\* the counters grew by one document and its size
Accepted ==
    /\ bbx'.bulk = Append(IF lastCall'.runs > 0 THEN <<>> ELSE bbx.bulk, Inserted)
    /\ bbx'.docCount = bbx.docCount + 1
    /\ bbx'.byteCount = bbx.byteCount + Inserted.size

\* C22: an Insert whose flush of the previous batch fails still appends the
\* new document to the now-current batch, updates the counters and returns
\* the error of that flush; an Insert that triggers no flush, or whose flush
\* succeeds, returns nil.
C22_InsertAfterFlush ==
    [][fed' # fed => (Accepted /\ lastCall'.err = lastCall'.res)]_vars

\* C22, amended: the above holds of a document that bson.Marshal accepts; for
\* one it rejects, Insert returns the encoding error, flushes nothing and
\* leaves the inserter as it was.
C22_InsertAfterFlushOfEncodable ==
    [][fed' # fed =>
          IF Inserted.enc
          THEN Accepted /\ lastCall'.err = lastCall'.res
          ELSE /\ bbx' = bbx
               /\ ran' = ran
               /\ lastCall'.err = "bson"]_vars

\* an Insert has returned the error of the flush it triggered and its
\* document is the only one buffered
C22_Witness ==
    /\ lastCall.op = "Insert"
    /\ lastCall.runs > 0
    /\ lastCall.res # Nil
    /\ lastCall.err = lastCall.res
    /\ bbx.bulk = <<fed[Len(fed)]>>

\* ---------------------------------------------------------------------
\* The upserter alone: newUpserter over an importer whose upsertFields are
\* empty, explicit or the default "_id", then any calls of Insert and Flush
\* ---------------------------------------------------------------------

UpserterKeys == {"", "a", "_id"}

InitUp ==
    /\ \E keys \in UpserterKeys :
          PipeStart([IdleConfig EXCEPT !.upsert = TRUE, !.upsertKeys = keys,
                                       !.maintainInsertionOrder = TRUE])
    /\ bbx = NewBufferedBulkInserter(1)
    /\ BBStart

UpInsert ==
    /\ Len(fed) < MaxFeed
    /\ \E res \in RunResults :
          LET doc == Doc(Len(fed) + 1)
              r == UpserterInsert(bbx, cfg.upsertKeys, doc, res)
          IN  /\ bbx' = r.bb
              /\ ran' = ran \o r.wrote
              /\ fed' = Append(fed, doc)
              /\ lastCall' = [op |-> "Insert", err |-> r.err,
                              runs |-> Len(r.wrote), prev |-> lastCall.op,
                              res |-> res]
    /\ UNCHANGED drains
    /\ UNCHANGED pipeVars

UpFlush ==
    /\ drains < MaxDrains
    /\ LET r == UpserterFlush(bbx) IN
          /\ bbx' = r.bb
          /\ ran' = ran \o r.ran
          /\ lastCall' = [op |-> "Flush", err |-> r.err, runs |-> Len(r.ran),
                          prev |-> lastCall.op, res |-> Nil]
    /\ drains' = drains + 1
    /\ UNCHANGED fed
    /\ UNCHANGED pipeVars

NextUp == UpInsert \/ UpFlush

SpecUp == InitUp /\ [][NextUp]_vars

\* the write upserter.Insert owes the i-th document it was given
UpsertOf(i) ==
    IF cfg.upsertKeys = ""
    THEN [op |-> "insert", selector |-> NoSelector, doc |-> fed[i]]
    ELSE [op |-> "upsert",
          selector |-> [key |-> cfg.upsertKeys, value |-> fed[i].id],
          doc |-> fed[i]]

\* C23: in upsert mode the upserter never buffers: every Insert so far has
\* made exactly one store write, in call order, a plain insert when the
\* selector is absent and otherwise an upsert with that selector, and has
\* returned the write's error; Flush makes no store write and returns nil.
C23_UpserterNeverBuffers ==
    /\ Len(ran) = Len(fed)
    /\ \A i \in 1..Len(fed) : ran[i] = UpsertOf(i)
    /\ bbx = NewBufferedBulkInserter(1)
    /\ lastCall.op = "Insert" => (lastCall.runs = 1 /\ lastCall.err = lastCall.res)
    /\ lastCall.op = "Flush" => (lastCall.runs = 0 /\ lastCall.err = Nil)

\* an upsert by selector has failed and returned the store's error
C23_Witness ==
    /\ cfg.upsert
    /\ cfg.upsertKeys = "a"
    /\ lastCall.op = "Insert"
    /\ lastCall.prev = "Flush"
    /\ lastCall.err = "write"
    /\ Len(fed) = 2
    /\ ran[2] = [op |-> "upsert", selector |-> [key |-> "a", value |-> 2],
                 doc |-> fed[2]]

====
